---- MODULE Spec2Model ----
(***************************************************************************)
(* Model of src/pages/teacher.py: the teacher dashboard script.  One       *)
(* script run is a sequence of steps (client, title/button, fetch, frame,  *)
(* metrics, filter, table, details, export, sidebar).  The external store, *)
(* the secrets file and the user (refresh, search text, page reload) are   *)
(* the environment.  Texts are sequences of one-character strings so that  *)
(* prefix tests, substring tests, regular-expression search and the CSV    *)
(* writer are computed on characters.                                      *)
(***************************************************************************)
EXTENDS Integers, Sequences, FiniteSets, TLC

VARIABLES store, schema, secrets, client, cache, search_id, clicked, pc,
          fetches, raw_data, df, filtered_df, page, metrics, table,
          details, download

vars == <<store, schema, secrets, client, cache, search_id, clicked, pc,
          fetches, raw_data, df, filtered_df, page, metrics, table,
          details, download>>

\* ------------------------------------------------------------------ bounds
\* Largest number of submissions the store holds in a behaviour.
MaxRecords == 2

\* ------------------------------------------------------------- characters
Comma == ","
Quote == "\""
LF == "\n"
\* One non-ASCII character (a Hangul syllable), kept as a single token.
Hangul == "U+AC00"

Range(s) == {s[i] : i \in 1..Len(s)}

\* ------------------------------------------------------------ text helpers
\* str.startswith(p)
StartsWith(t, p) ==
    /\ Len(p) <= Len(t)
    /\ \A i \in 1..Len(p) : t[i] = p[i]

\* Python's `p in t` for strings: literal substring containment.
Contains(t, p) ==
    \E k \in 0..(Len(t) - Len(p)) : \A i \in 1..Len(p) : t[k + i] = p[i]

\* The prefix of the feedback convention.
OPrefix == <<"O", ":">>

\* re.compile(pat): over the characters used here the only way a pattern is
\* rejected is an opening parenthesis that is never closed.
RegexValid(pat) == \A i \in 1..Len(pat) : pat[i] # "("

\* One pattern character against one text character: "." matches any
\* character but a newline, every other character matches itself.
RegexCharMatch(pc_, c) == IF pc_ = "." THEN c # LF ELSE pc_ = c

\* re.search(pat, t) for a pattern of literals and "." (no quantifiers).
RegexSearch(pat, t) ==
    \E k \in 0..(Len(t) - Len(pat)) :
        \A i \in 1..Len(pat) : RegexCharMatch(pat[i], t[k + i])

\* ----------------------------------------------------------- timestamps
Digits == <<"0", "1", "2">>
DigitVal(c) == CHOOSE d \in 0..2 : Digits[d + 1] = c

\* created_at as the store returns it: hour ":" minute ":" second.
\* pd.to_datetime parses the text to a timestamp value.
to_datetime(t) ==
    [hour |-> DigitVal(t[1]), minute |-> DigitVal(t[3]), second |-> DigitVal(t[5])]

\* .dt.strftime('%Y-%m-%d %H:%M'): the second is not printed.
strftime(ts) == <<Digits[ts.hour + 1], ":", Digits[ts.minute + 1]>>

\* The value the store orders by.
TsKey(t) ==
    LET ts == to_datetime(t) IN ts.hour * 9 + ts.minute * 3 + ts.second

\* ------------------------------------------------------------- columns
display_cols == <<"student_id", "created_at", "answer_1", "feedback_1",
                  "answer_2", "feedback_2", "answer_3", "feedback_3">>

\* Column orders the table of the store may have (select "*" returns every
\* column of the table in the table's order).
TableOrder == <<"id", "created_at", "student_id", "answer_1", "answer_2",
                "answer_3", "feedback_1", "feedback_2", "feedback_3">>

Schemas == {display_cols, TableOrder}

\* ------------------------------------------------------------ submissions
Sub1 == [id |-> <<"1">>, student_id |-> <<"1", "0", "1">>,
         created_at |-> <<"1", ":", "2", ":", "1">>,
         answer_1 |-> <<"a", Comma, "b">>, feedback_1 |-> <<"O", ":", "k">>,
         answer_2 |-> <<"a">>, feedback_2 |-> <<"X", ":">>,
         answer_3 |-> <<>>, feedback_3 |-> <<"O", ":">>]

Sub2 == [id |-> <<"2">>, student_id |-> <<"1", "0", "2">>,
         created_at |-> <<"1", ":", "1", ":", "2">>,
         answer_1 |-> <<Quote, "a", Quote>>, feedback_1 |-> <<"X", ":", "O", ":">>,
         answer_2 |-> <<"b", LF, "c">>, feedback_2 |-> <<"O", ":", Hangul>>,
         answer_3 |-> <<Hangul>>, feedback_3 |-> <<"X", ":">>]

Sub3 == [id |-> <<"3">>, student_id |-> <<"A", "1">>,
         created_at |-> <<"1", ":", "1", ":", "2">>,
         answer_1 |-> <<"a">>, feedback_1 |-> <<"O", ":">>,
         answer_2 |-> <<"b">>, feedback_2 |-> <<"o", ":">>,
         answer_3 |-> <<"c">>, feedback_3 |-> <<"O">>]

Sub4 == [id |-> <<"4">>, student_id |-> <<"1", "0", "1">>,
         created_at |-> <<"0", ":", "0", ":", "0">>,
         answer_1 |-> <<"a">>, feedback_1 |-> <<"X", ":">>,
         answer_2 |-> <<Comma>>, feedback_2 |-> <<"X", ":">>,
         answer_3 |-> <<"c">>, feedback_3 |-> <<"X", "O", ":">>]

Submissions == {Sub1, Sub2, Sub3, Sub4}

\* Texts the user may type into the search box.
SearchTexts == {<<>>, <<"1", "0">>, <<"2">>, <<".">>, <<"a">>, <<"(">>}

\* ------------------------------------------------------------ the store
\* A row as the store returns it: a dict, i.e. the <<key, value>> pairs in
\* the table's column order.
Dict(r, cols) == [i \in 1..Len(cols) |-> <<cols[i], r[cols[i]]>>]

\* d[key]
DictGet(d, key) == d[CHOOSE i \in 1..Len(d) : d[i][1] = key][2]

RECURSIVE Perms(_)
Perms(S) ==
    IF S = {} THEN {<<>>}
    ELSE UNION {{<<x>> \o p : p \in Perms(S \ {x})} : x \in S}

\* .order("created_at", desc=True): every order of the rows in which
\* created_at never increases (rows with equal created_at come in any order).
OrderedDesc(S) ==
    {p \in Perms(S) :
        \A i \in 1..Len(p) : \A j \in 1..Len(p) :
            i < j => TsKey(p[i].created_at) >= TsKey(p[j].created_at)}

\* ------------------------------------------------------------ data frame
NoFrame == [columns |-> <<>>, rows |-> <<>>]

\* pd.DataFrame(raw): the columns are the keys of the dicts in their order.
DataFrame(raw) ==
    LET cols == IF raw = <<>> THEN <<>>
                ELSE [i \in 1..Len(raw[1]) |-> raw[1][i][1]]
    IN [columns |-> cols,
        rows |-> [k \in 1..Len(raw) |->
                     [c \in Range(cols) |-> DictGet(raw[k], c)]]]

\* df['created_at'] = pd.to_datetime(df['created_at']).dt.strftime(...)
Reformat(f) ==
    [f EXCEPT !.rows = [k \in 1..Len(f.rows) |->
        [f.rows[k] EXCEPT !["created_at"] = strftime(to_datetime(@))]]]

\* ------------------------------------------------------------- metrics
\* len(df['student_id'].unique())
total_students(f) == Cardinality({f.rows[k]["student_id"] : k \in 1..Len(f.rows)})

\* len(df)
total_submissions(f) == Len(f.rows)

\* Variant: the prefix test replaced by a test for "O:" anywhere in the text.
CountsCorrectAnywhere(fb) == Contains(fb, OPrefix)

\* The test that counts a row as correct: feedback_1 .str.startswith("O:").
CountsCorrect(fb) == StartsWith(fb, OPrefix)

\* df['feedback_1'].str.startswith("O:").sum()
q1_correct_count(f) ==
    Cardinality({k \in 1..Len(f.rows) : CountsCorrect(f.rows[k]["feedback_1"])})

\* (q1_correct_count / total_submissions) * 100, kept as an exact fraction.
\* The step that computes it (Metrics) divides only when den is not 0.
correct_rate(f) ==
    [num |-> q1_correct_count(f) * 100, den |-> total_submissions(f)]

\* f"{correct_rate:.1f}": the rate in tenths of a percent, rounded to the
\* nearest tenth, a tie going to the even tenth.
Format1(rate) ==
    LET q == (rate.num * 10) \div rate.den
        r == (rate.num * 10) % rate.den
    IN IF 2 * r > rate.den THEN q + 1
       ELSE IF 2 * r = rate.den THEN q + (q % 2)
       ELSE q

Metric(f) ==
    [students |-> total_students(f),
     submissions |-> total_submissions(f),
     rate |-> correct_rate(f),
     rate_text |-> Format1(correct_rate(f))]

\* -------------------------------------------------------------- filter
\* df['student_id'].str.contains(search_id): pandas' default is regex=True,
\* so the text is compiled and searched as a regular expression.
StrContains(sid, s) == RegexSearch(s, sid)

\* Variant: the empty search text is searched for like any other and is
\* taken to match no row.
FilterEmptyMatchesNone(f, s) ==
    [f EXCEPT !.rows = SelectSeq(f.rows,
        LAMBDA row : s # <<>> /\ StrContains(row["student_id"], s))]

\* lines 68-70
Filter(f, s) ==
    IF s = <<>> THEN f
    ELSE [f EXCEPT !.rows = SelectSeq(f.rows,
                       LAMBDA row : StrContains(row["student_id"], s))]

\* filtered_df[display_cols]
Project(f) ==
    [columns |-> display_cols,
     rows |-> [k \in 1..Len(f.rows) |->
                  [i \in 1..Len(display_cols) |-> f.rows[k][display_cols[i]]]]]

\* ------------------------------------------------------------- details
\* `"O:" in row[...]`: the test that picks st.success over st.warning.
StyledPositive(fb) == Contains(fb, OPrefix)

Styled(fb) ==
    [text |-> fb, style |-> IF StyledPositive(fb) THEN "success" ELSE "warning"]

\* One expander per row of filtered_df.
Expander(row) ==
    [label |-> <<row["student_id"], row["created_at"]>>,
     answers |-> <<row["answer_1"], row["answer_2"], row["answer_3"]>>,
     feedback |-> <<Styled(row["feedback_1"]), Styled(row["feedback_2"]),
                    Styled(row["feedback_3"])>>]

Expanders(f) == [k \in 1..Len(f.rows) |-> Expander(f.rows[k])]

\* --------------------------------------------------------------- export
\* The concatenation of a sequence of texts.
RECURSIVE Flatten(_)
Flatten(ss) ==
    IF ss = <<>> THEN <<>>
    ELSE IF Len(ss) = 1 THEN ss[1]
    ELSE LET h == Len(ss) \div 2
         IN Flatten(SubSeq(ss, 1, h)) \o Flatten(SubSeq(ss, h + 1, Len(ss)))

\* csv.writer, QUOTE_MINIMAL: a field is quoted when it holds the delimiter,
\* the quote character or a line terminator.
NeedsQuote(fld) == \E i \in 1..Len(fld) : fld[i] \in {Comma, Quote, LF}

\* doublequote=True: every quote character inside a quoted field is doubled.
DoubleQuotes(fld) ==
    Flatten([i \in 1..Len(fld) |->
                IF fld[i] = Quote THEN <<Quote, Quote>> ELSE <<fld[i]>>])

\* Variant: fields are written as they are, never quoted.
WriteFieldUnquoted(fld) == fld

WriteField(fld) ==
    IF NeedsQuote(fld) THEN <<Quote>> \o DoubleQuotes(fld) \o <<Quote>> ELSE fld

\* One line of the file: the fields joined by commas, then the terminator.
WriteRow(fields) ==
    Flatten([i \in 1..Len(fields) |->
                IF i = 1 THEN WriteField(fields[i])
                ELSE <<Comma>> \o WriteField(fields[i])]) \o <<LF>>

\* A column name as a text: the whole name is kept as one token (the names
\* hold no delimiter, quote or line terminator).
HeaderFields(cols) == [i \in 1..Len(cols) |-> <<cols[i]>>]

\* df.to_csv(index=False): the header line, then one line per row with the
\* values in the frame's column order.
to_csv(f) ==
    WriteRow(HeaderFields(f.columns)) \o
    Flatten([k \in 1..Len(f.rows) |->
                WriteRow([i \in 1..Len(f.columns) |-> f.rows[k][f.columns[i]]])])

BOM == <<"xEF", "xBB", "xBF">>

Utf8(c) == IF c = Hangul THEN <<"xEA", "xB0", "x80">> ELSE <<c>>

\* .encode('utf-8-sig'): the byte order mark, then the UTF-8 bytes.
encode_utf8_sig(t) == BOM \o Flatten([i \in 1..Len(t) |-> Utf8(t[i])])

\* The body of convert_df, lines 104-105.
convert_df(f) == encode_utf8_sig(to_csv(f))

\* Variant: a cache looked up without regard to the argument.
CacheHitAnyKey(c, f) == c

\* @st.cache_data: the entries stored for the frame passed as argument.
CacheHit(c, f) == {e \in c : e.key = f}

\* The bytes a call of the cached convert_df returns.
CachedValue(c, f) ==
    IF CacheHit(c, f) # {} THEN (CHOOSE e \in CacheHit(c, f) : TRUE).value
    ELSE convert_df(f)

\* The cache after the call: a miss stores the computed bytes.
CacheAfter(c, f) ==
    IF CacheHit(c, f) # {} THEN c
    ELSE c \cup {[key |-> f, value |-> convert_df(f)]}

\* ---------------------------------------------------------------- state
\* store       the rows of student_submissions in the external store
\* schema      the column order of that table
\* secrets     TRUE when st.secrets yields a usable URL and key
\* client      TRUE once @st.cache_resource holds the created client
\* cache       the entries @st.cache_data holds for convert_df
\* search_id   the text of the search box (widget state of the session)
\* clicked     TRUE in the run started by pressing the refresh button
\* pc          the position of the script run
\* fetches     calls of fetch_data made by the current run
\* raw_data, df, filtered_df   the script's variables of the current run
\* page        the elements the current run has rendered
\* metrics, table, details, download   what those elements show; <<>> when
\*             the element is not rendered, <<v>> when it shows v

Terminal == {"done", "stopped", "crashed"}

Init ==
    /\ store = {}
    /\ schema \in Schemas
    /\ secrets \in BOOLEAN
    /\ client = FALSE
    /\ cache = {}
    /\ search_id = <<>>
    /\ clicked = FALSE
    /\ pc = "client"
    /\ fetches = 0
    /\ raw_data = <<>>
    /\ df = NoFrame
    /\ filtered_df = NoFrame
    /\ page = {}
    /\ metrics = <<>>
    /\ table = <<>>
    /\ details = <<>>
    /\ download = <<>>

\* Variant: the error is shown but the run is not stopped.
AfterConfigErrorContinue == "button"

\* Variant: a failed read is tried again.
AfterFetchErrorRetry == "fetch"

\* Variant: the filtered frame is exported.
ExportArgFiltered(full, filtered) == filtered

\* st.stop() in the except branch of get_supabase_client: the run halts.
AfterConfigError == "stopped"

\* fetch_data has no try/except: the exception ends the run.
AfterFetchError == "crashed"

\* line 107: the frame handed to convert_df is df, not filtered_df.
ExportArg(full, filtered) == full

\* A script run starts from the top with nothing rendered.
NewRun ==
    /\ pc' = "client"
    /\ fetches' = 0
    /\ raw_data' = <<>>
    /\ df' = NoFrame
    /\ filtered_df' = NoFrame
    /\ page' = {}
    /\ metrics' = <<>>
    /\ table' = <<>>
    /\ details' = <<>>
    /\ download' = <<>>

RunVars == <<fetches, raw_data, df, filtered_df, metrics, table, details, download>>

\* ---------------------------------------------------------- environment
\* A student submits: the store gains a row.
Submit(r) ==
    /\ r \notin store
    /\ Cardinality(store) < MaxRecords
    /\ store' = store \cup {r}
    /\ UNCHANGED <<schema, secrets, client, cache, search_id, clicked, pc, page>>
    /\ UNCHANGED RunVars

\* The secrets file is edited (fixed or broken).
EditSecrets ==
    /\ secrets' = ~secrets
    /\ UNCHANGED <<store, schema, client, cache, search_id, clicked, pc, page>>
    /\ UNCHANGED RunVars

\* The user opens or reloads the page: a new session, the search box empty.
Reload ==
    /\ pc \in Terminal
    /\ search_id' = <<>>
    /\ clicked' = FALSE
    /\ NewRun
    /\ UNCHANGED <<store, schema, secrets, client, cache>>

\* The user presses the refresh button.
ClickRefresh ==
    /\ pc \in Terminal
    /\ "button" \in page
    /\ clicked' = TRUE
    /\ NewRun
    /\ UNCHANGED <<store, schema, secrets, client, cache, search_id>>

\* The user changes the text of the search box.
TypeSearch(s) ==
    /\ pc \in Terminal
    /\ "search" \in page
    /\ s # search_id
    /\ search_id' = s
    /\ clicked' = FALSE
    /\ NewRun
    /\ UNCHANGED <<store, schema, secrets, client, cache>>

\* ------------------------------------------------------------ script run
\* line 20, get_supabase_client(): the cached client, or a new one.
GetClientOk ==
    /\ pc = "client"
    /\ client \/ secrets
    /\ client' = TRUE
    /\ pc' = "button"
    /\ UNCHANGED <<store, schema, secrets, cache, search_id, clicked, page>>
    /\ UNCHANGED RunVars

\* lines 16-18: the lookup or create_client raised; st.error, st.stop().
GetClientFail ==
    /\ pc = "client"
    /\ ~client /\ ~secrets
    /\ page' = page \cup {"config_error"}
    /\ pc' = AfterConfigError
    /\ UNCHANGED <<store, schema, secrets, client, cache, search_id, clicked>>
    /\ UNCHANGED RunVars

\* lines 29-33 with the button not pressed.
Button ==
    /\ pc = "button"
    /\ ~clicked
    /\ page' = page \cup {"title", "button"}
    /\ pc' = "fetch"
    /\ UNCHANGED <<store, schema, secrets, client, cache, search_id, clicked>>
    /\ UNCHANGED RunVars

\* lines 33-35 with the button pressed: st.cache_data.clear(), st.rerun().
ButtonRerun ==
    /\ pc = "button"
    /\ clicked
    /\ cache' = {}
    /\ clicked' = FALSE
    /\ NewRun
    /\ UNCHANGED <<store, schema, secrets, client, search_id>>

\* line 38, fetch_data() returning the rows of the store.
FetchOk(rows) ==
    /\ pc = "fetch"
    /\ raw_data' = [i \in 1..Len(rows) |-> Dict(rows[i], schema)]
    /\ fetches' = fetches + 1
    /\ pc' = "branch"
    /\ UNCHANGED <<store, schema, secrets, client, cache, search_id, clicked, page,
                   df, filtered_df, metrics, table, details, download>>

\* line 38, fetch_data() raising: nothing catches it, the run ends there.
FetchFail ==
    /\ pc = "fetch"
    /\ fetches' = fetches + 1
    /\ page' = page \cup {"fetch_exception"}
    /\ pc' = AfterFetchError
    /\ UNCHANGED <<store, schema, secrets, client, cache, search_id, clicked,
                   raw_data, df, filtered_df, metrics, table, details, download>>

\* Variant: a test against None, which an empty list never passes.
IsEmptyNone(raw) == FALSE

\* `not raw_data`
IsEmpty(raw) == raw = <<>>

\* lines 40-41: the placeholder.
Placeholder ==
    /\ pc = "branch"
    /\ IsEmpty(raw_data)
    /\ page' = page \cup {"placeholder"}
    /\ pc' = "sidebar"
    /\ UNCHANGED <<store, schema, secrets, client, cache, search_id, clicked>>
    /\ UNCHANGED RunVars

\* lines 42-47: the frame, created_at reformatted.
Frame ==
    /\ pc = "branch"
    /\ ~IsEmpty(raw_data)
    /\ df' = Reformat(DataFrame(raw_data))
    /\ pc' = "metrics"
    /\ UNCHANGED <<store, schema, secrets, client, cache, search_id, clicked, page,
                   fetches, raw_data, filtered_df, metrics, table, details, download>>

\* lines 50-62: the three summary figures.
Metrics ==
    /\ pc = "metrics"
    /\ IF total_submissions(df) = 0
       THEN /\ page' = page \cup {"metrics_exception"}
            /\ pc' = "crashed"
            /\ UNCHANGED metrics
       ELSE /\ metrics' = <<Metric(df)>>
            /\ page' = page \cup {"metrics"}
            /\ pc' = "filter"
    /\ UNCHANGED <<store, schema, secrets, client, cache, search_id, clicked,
                   fetches, raw_data, df, filtered_df, table, details, download>>

\* lines 65-70: the search box and the filter.
FilterStep ==
    /\ pc = "filter"
    /\ search_id # <<>> => RegexValid(search_id)
    /\ filtered_df' = Filter(df, search_id)
    /\ page' = page \cup {"search"}
    /\ pc' = "table"
    /\ UNCHANGED <<store, schema, secrets, client, cache, search_id, clicked,
                   fetches, raw_data, df, metrics, table, details, download>>

\* line 70 raising: the search text is not a valid regular expression.
FilterError ==
    /\ pc = "filter"
    /\ search_id # <<>> /\ ~RegexValid(search_id)
    /\ page' = page \cup {"search", "filter_exception"}
    /\ pc' = "crashed"
    /\ UNCHANGED <<store, schema, secrets, client, cache, search_id, clicked>>
    /\ UNCHANGED RunVars

\* lines 74-75: the table of the filtered rows.
Table ==
    /\ pc = "table"
    /\ table' = <<Project(filtered_df)>>
    /\ page' = page \cup {"table"}
    /\ pc' = "details"
    /\ UNCHANGED <<store, schema, secrets, client, cache, search_id, clicked,
                   fetches, raw_data, df, filtered_df, metrics, details, download>>

\* lines 78-97: one expander per filtered row.
Details ==
    /\ pc = "details"
    /\ details' = <<Expanders(filtered_df)>>
    /\ page' = page \cup {"details"}
    /\ pc' = "export"
    /\ UNCHANGED <<store, schema, secrets, client, cache, search_id, clicked,
                   fetches, raw_data, df, filtered_df, metrics, table, download>>

\* lines 100-113: csv = convert_df(df) through the cache, the download button.
Export ==
    /\ pc = "export"
    /\ download' = <<CachedValue(cache, ExportArg(df, filtered_df))>>
    /\ cache' = CacheAfter(cache, ExportArg(df, filtered_df))
    /\ page' = page \cup {"download"}
    /\ pc' = "sidebar"
    /\ UNCHANGED <<store, schema, secrets, client, search_id, clicked,
                   fetches, raw_data, df, filtered_df, metrics, table, details>>

\* lines 115-116: the sidebar; the run is complete.
Sidebar ==
    /\ pc = "sidebar"
    /\ page' = page \cup {"sidebar"}
    /\ pc' = "done"
    /\ UNCHANGED <<store, schema, secrets, client, cache, search_id, clicked>>
    /\ UNCHANGED RunVars

Next ==
    \/ \E r \in Submissions : Submit(r)
    \/ EditSecrets
    \/ Reload
    \/ ClickRefresh
    \/ \E s \in SearchTexts : TypeSearch(s)
    \/ GetClientOk
    \/ GetClientFail
    \/ Button
    \/ ButtonRerun
    \/ \E rows \in OrderedDesc(store) : FetchOk(rows)
    \/ FetchFail
    \/ Placeholder
    \/ Frame
    \/ Metrics
    \/ FilterStep
    \/ FilterError
    \/ Table
    \/ Details
    \/ Export
    \/ Sidebar

Spec == Init /\ [][Next]_vars

\* ------------------------------------------------- reading the export back
\* Decoding utf-8-sig: the byte order mark is dropped, a lead byte becomes
\* its character and its continuation bytes are consumed.
DecodeUtf8(b) ==
    Flatten([i \in 1..Len(b) |->
                IF b[i] = "xEA" THEN <<Hangul>>
                ELSE IF b[i] \in {"xB0", "x80"} THEN <<>>
                ELSE <<b[i]>>])

DecodeUtf8Sig(b) ==
    IF Len(b) >= 3 /\ SubSeq(b, 1, 3) = BOM
    THEN DecodeUtf8(SubSeq(b, 4, Len(b)))
    ELSE DecodeUtf8(b)

\* A comma-delimited reader (RFC 4180).  A character is inside a quoted
\* field when an odd number of quote characters precedes it.
InQuotes(t, i) == Cardinality({j \in 1..(i - 1) : t[j] = Quote}) % 2 = 1

\* The positions of the separators sep that are not inside a quoted field.
Separators(t, sep) == {i \in 1..Len(t) : t[i] = sep /\ ~InQuotes(t, i)}

\* The k-th smallest member of a set of positions (0 for k = 0).
Nth(P, k) ==
    IF k = 0 THEN 0
    ELSE CHOOSE i \in P : Cardinality({j \in P : j < i}) = k - 1

\* The lines: the text before each line terminator outside quotes.
SplitLines(t) ==
    LET P == Separators(t, LF) IN
    [k \in 1..Cardinality(P) |-> SubSeq(t, Nth(P, k - 1) + 1, Nth(P, k) - 1)]

\* The raw fields of a line: the text between the commas outside quotes.
SplitFields(l) ==
    LET P == Separators(l, Comma)
        n == Cardinality(P)
    IN [k \in 1..(n + 1) |->
           SubSeq(l, Nth(P, k - 1) + 1,
                  IF k = n + 1 THEN Len(l) ELSE Nth(P, k) - 1)]

\* The value of a raw field: a quoted field loses its enclosing quotes and
\* every doubled quote becomes one.
Unquote(f) ==
    IF f # <<>> /\ f[1] = Quote
    THEN Flatten([j \in 1..Len(f) |->
             IF j = 1 \/ j = Len(f) THEN <<>>
             ELSE IF f[j] = Quote /\ ~InQuotes(f, j) THEN <<>>
             ELSE <<f[j]>>])
    ELSE f

\* The lines of an exported file, each a sequence of field texts.
ParseExport(bytes) ==
    LET ls == SplitLines(DecodeUtf8Sig(bytes)) IN
    [k \in 1..Len(ls) |->
        LET fs == SplitFields(ls[k]) IN [i \in 1..Len(fs) |-> Unquote(fs[i])]]

\* ================================================================ claims
\* The frame of the current run's snapshot: the fetched rows in fetch order,
\* created_at reformatted.
Snapshot == Reformat(DataFrame(raw_data))

Outputs == {"metrics", "search", "table", "details", "download"}

\* The value of column col in the k-th fetched row, as the frame shows it.
Shown(k, col) ==
    IF col = "created_at"
    THEN strftime(to_datetime(DictGet(raw_data[k], col)))
    ELSE DictGet(raw_data[k], col)

\* The fetched rows whose student_id holds s as a literal substring.
LiteralMatches(s) ==
    SelectSeq(Snapshot.rows, LAMBDA row : Contains(row["student_id"], s))

\* C1: whenever the download is offered, its bytes are the serialization of
\* the full record set of the current run: one line per fetched record, in
\* fetch order, whatever the search text is.
ExportIsFullSnapshot ==
    "download" \in page =>
        /\ download[1] = convert_df(Snapshot)
        /\ LET lines == ParseExport(download[1]) IN
           /\ Len(lines) = Len(raw_data) + 1
           /\ \A k \in 1..Len(raw_data) :
                \E i \in 1..Len(lines[1]) :
                    /\ lines[1][i] = <<"student_id">>
                    /\ lines[k + 1][i] = DictGet(raw_data[k], "student_id")

\* C1 witness: a download offered while the filter hides some record.
ExportWhileFiltered ==
    /\ "download" \in page
    /\ search_id # <<>>
    /\ Len(filtered_df.rows) < Len(raw_data)

FilterIsLiteralSubstring ==
    ("table" \in page /\ search_id # <<>>) =>
        filtered_df.rows = LiteralMatches(search_id)

\* C4 as stated: every feedback of every detail block is styled positive
\* exactly when it starts with "O:", and feedback_1 is styled positive
\* exactly when the row counts as correct in the rate.
DetailStyleIsPrefix ==
    "details" \in page =>
        \A k \in 1..Len(details[1]) : \A j \in 1..3 :
            LET fb == details[1][k].feedback[j] IN
            /\ fb.style = "success" <=> StartsWith(fb.text, OPrefix)
            /\ fb.style \in {"success", "warning"}
            /\ j = 1 => (fb.style = "success" <=> CountsCorrect(fb.text))

\* C5: once a run has fetched an empty record set it renders none of the
\* metrics, search box, table, details or download, it shows the
\* placeholder, and the rate is never computed over zero submissions.
EmptyShowsOnlyPlaceholder ==
    /\ (pc \in {"branch", "metrics", "filter", "table", "details", "export",
                "sidebar", "done"} /\ raw_data = <<>>) =>
          /\ pc \in {"branch", "sidebar", "done"}
          /\ page \cap Outputs = {}
          /\ metrics = <<>> /\ table = <<>> /\ details = <<>> /\ download = <<>>
          /\ pc # "branch" => "placeholder" \in page
    /\ pc = "metrics" => total_submissions(df) # 0
    /\ "metrics_exception" \notin page
    /\ "placeholder" \in page => raw_data = <<>>

\* C5 witness: a completed run over an empty record set.
EmptyRunDone ==
    /\ pc = "done"
    /\ fetches = 1
    /\ raw_data = <<>>
    /\ "placeholder" \in page

\* The number of fetched records whose feedback_1 starts with "O:".
FetchedCorrect ==
    Cardinality({k \in 1..Len(raw_data) :
                    StartsWith(DictGet(raw_data[k], "feedback_1"), OPrefix)})

\* C6: the rate shown is (records whose feedback_1 starts with "O:") /
\* (records) * 100; it lies in [0, 100], is 0 when no record qualifies and
\* 100 when all do, and one of two gives 50.0.
RateInRange ==
    "metrics" \in page =>
        LET m == metrics[1]
            n == Len(raw_data)
            k == FetchedCorrect
        IN /\ m.submissions = n /\ n > 0
           /\ m.rate.num * n = k * 100 * m.rate.den
           /\ 0 <= m.rate.num /\ m.rate.num <= 100 * m.rate.den
           /\ 0 <= m.rate_text /\ m.rate_text <= 1000
           /\ k = 0 => (m.rate.num = 0 /\ m.rate_text = 0)
           /\ k = n => (m.rate.num = 100 * m.rate.den /\ m.rate_text = 1000)
           /\ (n = 2 /\ k = 1) => m.rate_text = 500
           /\ m.students <= m.submissions

\* C6 witness: two records, one correct: the rate shown is 50.0.
RateHalf ==
    /\ "metrics" \in page
    /\ Len(raw_data) = 2
    /\ FetchedCorrect = 1
    /\ metrics[1].rate_text = 500

\* C7: when no client can be had, the run shows the configuration error and
\* halts: it never fetches and renders nothing else; a run that got past
\* the client step holds a client.
ConfigFailureHalts ==
    /\ "config_error" \in page =>
          /\ pc = "stopped"
          /\ fetches = 0
          /\ page = {"config_error"}
          /\ raw_data = <<>>
          /\ metrics = <<>> /\ table = <<>> /\ details = <<>> /\ download = <<>>
    /\ pc = "stopped" => "config_error" \in page
    /\ pc \notin {"client", "stopped"} => client

\* C7 witness: a run halted on the configuration error.
ConfigErrorShown ==
    /\ pc = "stopped"
    /\ "config_error" \in page
    /\ ~client

\* C8: when the store read fails, the run ends there: the failure is shown,
\* the fetch was made once, and no metrics, table, detail or export is
\* rendered.
FetchFailureAborts ==
    "fetch_exception" \in page =>
        /\ pc = "crashed"
        /\ fetches = 1
        /\ page = {"title", "button", "fetch_exception"}
        /\ raw_data = <<>> /\ df = NoFrame
        /\ metrics = <<>> /\ table = <<>> /\ details = <<>> /\ download = <<>>

\* C8 witness: a failed store read while the store and the cache hold data
\* of an earlier run.
FetchFailedAfterData ==
    /\ "fetch_exception" \in page
    /\ pc = "crashed"
    /\ cache # {}

\* C9: with the empty search text the filtered view is the full frame, same
\* rows in the same order, and filtering leaves the frame as it was built
\* from the fetched rows.
EmptySearchPassesAll ==
    "table" \in page =>
        /\ df = Snapshot
        /\ search_id = <<>> =>
              /\ filtered_df = df
              /\ table[1] = Project(Snapshot)
              /\ Len(table[1].rows) = Len(raw_data)

\* C9 witness: a table rendered with the empty search text over two records.
EmptySearchTable ==
    /\ "table" \in page
    /\ search_id = <<>>
    /\ Len(raw_data) = 2

\* What a run shows is derived from the rows it fetched itself.
DerivedFromOwnFetch ==
    /\ fetches <= 1
    /\ fetches = 0 =>
          /\ raw_data = <<>> /\ df = NoFrame
          /\ page \cap Outputs = {}
    /\ pc \in {"branch", "metrics", "filter", "table", "details", "export",
               "sidebar", "done"} => fetches = 1
    /\ "metrics" \in page => metrics = <<Metric(Snapshot)>>
    /\ "table" \in page => table = <<Project(Filter(Snapshot, search_id))>>
    /\ "details" \in page => details = <<Expanders(Filter(Snapshot, search_id))>>
    /\ "download" \in page => download = <<convert_df(Snapshot)>>

\* The rows a run holds are the store's rows at the time of its fetch.
FetchReadsStore ==
    raw_data' # raw_data =>
        \/ raw_data' = <<>> /\ fetches' = 0
        \/ /\ fetches' = 1
           /\ \E rows \in OrderedDesc(store) :
                 raw_data' = [i \in 1..Len(rows) |-> Dict(rows[i], schema)]

\* C10: every run fetches at most once, a run that renders has fetched
\* exactly once, the fetch returns the store's rows of that moment, and the
\* metrics, table, details and export are those of that fetch.
OneFetchPerCycle == []DerivedFromOwnFetch /\ [][FetchReadsStore]_vars

\* C10 witness: a completed run after the store changed since an earlier
\* run whose export is still cached.
FreshAfterStoreChange ==
    /\ pc = "done"
    /\ "download" \in page
    /\ \E e \in cache : e.key # df

====
